---- MODULE Spec2Model ----
(***************************************************************************)
(* State-machine model of the NostalgiaForInfinityX7_FreqAI strategy (the  *)
(* "primary" strategy) and of NostalgiaForInfinityX7_Hybrid (the wrapper   *)
(* that filters a wrapped strategy's signals by the ML prediction).        *)
(*                                                                         *)
(* Numbers.  pandas/float values are modelled as exact rationals, scaled   *)
(* to integers, and every comparison of the code is made by cross          *)
(* multiplication.  An undefined value (numpy NaN) is the record NaN; any  *)
(* ordering comparison with it is FALSE, as in IEEE-754.                   *)
(*   prices (close, rate)      : units of 0.05 in the trade guards         *)
(*   primary prediction        : units of 0.0001                           *)
(*   RSI_14                    : units of 1                                *)
(*   bb_width                  : units of 0.001                            *)
(*   current_profit            : units of 0.01                             *)
(***************************************************************************)
EXTENDS Integers, Sequences, FiniteSets, TLC

VARIABLES
  analyzed,   \* dp.get_analyzed_dataframe(pair, timeframe): sequence of candles
  lastCall,   \* the last trade-guard hook the host invoked, with its arguments
  lastResult, \* what that hook returned
  strategy,   \* "FreqAI" (primary) or "Hybrid": whose populate_* methods run
  cols,       \* dataframe.columns: the names of the columns the frame holds
  df,         \* the dataframe handed to and returned by populate_*: its rows
  x7_out,     \* the rows the wrapped strategy returned to the Hybrid wrapper
  log,        \* what the Hybrid entry filter logged (log.info), if anything
  done,       \* the populate_* methods that have run on df
  pc,         \* per host thread: where it is inside a Hybrid method
  op,         \* per host thread: the Hybrid method it runs (or ran last)
  x7_instance,\* self._x7_instance: 0 for None, else the number of an instance
  instances,  \* the wrapped instances constructed so far, with their dp/wallets
  ret,        \* per host thread: what _get_x7_instance returned last (0: nothing)
  injections, \* how many assignments to a wrapped instance's dp/wallets ran
  calls,      \* how many Hybrid method calls have started
  close,      \* dataframe['close'] handed to set_freqai_targets
  label_period, \* freqai_info['feature_parameters']['label_period_candles']
  target      \* dataframe['&-s_close'] as set_freqai_targets wrote it

guardVars == <<analyzed, lastCall, lastResult>>

fusionVars == <<strategy, cols, df, x7_out, log, done>>

adapterVars == <<pc, op, x7_instance, instances, ret, injections, calls>>

targetVars == <<close, label_period, target>>

vars == <<analyzed, lastCall, lastResult, strategy, cols, df, x7_out, log, done,
          pc, op, x7_instance, instances, ret, injections, calls,
          close, label_period, target>>

-----------------------------------------------------------------------------
(* Undefined values *)

NaN == [nan |-> TRUE, v |-> 0]

Num(x) == [nan |-> FALSE, v |-> x]

Last(s) == s[Len(s)]

-----------------------------------------------------------------------------
(* Trade guard of the primary strategy: confirm_trade_entry, custom_exit *)

startup_candle_count == 800

\* rate > close * 1.0025   <=>   rate * SlipDen > close * SlipLongNum
SlipLongNum == 10025

\* rate < close * 0.9975   <=>   rate * SlipDen < close * SlipShortNum
SlipShortNum == 9975

SlipDen == 10000

\* current_profit > 0.02, in units of 0.01
ProfitTarget == 2

MaxCandles == 2

\* close of an analyzed candle: 2000 stands for 100.00 (0.05 per unit)
GuardCloses == {Num(1000), Num(2000), NaN}

GuardDoPredict == {-1, 0, 1}

GuardPreds == {Num(-1), Num(0), Num(1)}

GuardCandles == [close : GuardCloses, do_predict : GuardDoPredict, pred : GuardPreds]

\* 99.70, 99.75, 99.80, 100.20, 100.25, 100.30
Rates == {1994, 1995, 1996, 2004, 2005, 2006}

Sides == {"long", "short"}

Profits == {-1, 2, 3}

NoCall == [op |-> "none", side |-> "long", rate |-> 0, profit |-> 0, is_short |-> FALSE]

\* x > y on floats: FALSE when either side is undefined
FloatGt(xn, xd, y, yn, yd) == ~y.nan /\ xn * yd > y.v * yn * xd

FloatLt_nan_true(xn, xd, y, yn, yd) == y.nan \/ xn * yd < y.v * yn * xd

FloatLt(xn, xd, y, yn, yd) == ~y.nan /\ xn * yd < y.v * yn * xd

confirm_trade_entry_ge(dataframe, rate, side) ==
  IF Len(dataframe) < 1 THEN "False"
  ELSE LET last_candle == Last(dataframe) IN
       IF side = "long"
       THEN IF ~last_candle.close.nan /\ rate * SlipDen >= last_candle.close.v * SlipLongNum
            THEN "False" ELSE "True"
       ELSE IF ~last_candle.close.nan /\ rate * SlipDen <= last_candle.close.v * SlipShortNum
            THEN "False" ELSE "True"

confirm_trade_entry(dataframe, rate, side) ==
  IF Len(dataframe) < 1 THEN "False"
  ELSE LET last_candle == Last(dataframe) IN
       IF side = "long"
       THEN IF FloatGt(rate, 1, last_candle.close, SlipLongNum, SlipDen)
            THEN "False" ELSE "True"
       ELSE IF FloatLt(rate, 1, last_candle.close, SlipShortNum, SlipDen)
            THEN "False" ELSE "True"

custom_exit_reversal_first(dataframe, is_short, current_profit) ==
  IF Len(dataframe) < 1 THEN "None"
  ELSE LET last_candle == Last(dataframe) IN
       IF current_profit > ProfitTarget /\ is_short
          /\ ~last_candle.pred.nan /\ last_candle.pred.v > 0
       THEN "ml_reversal_short"
       ELSE IF current_profit > ProfitTarget /\ ~is_short
          /\ ~last_candle.pred.nan /\ last_candle.pred.v < 0
       THEN "ml_reversal_long"
       ELSE IF last_candle.do_predict # 1 THEN "ml_confidence_lost"
       ELSE "None"

custom_exit(dataframe, is_short, current_profit) ==
  IF Len(dataframe) < 1 THEN "None"
  ELSE LET last_candle == Last(dataframe) IN
       IF last_candle.do_predict # 1 THEN "ml_confidence_lost"
       ELSE IF current_profit > ProfitTarget
            THEN IF is_short
                 THEN IF ~last_candle.pred.nan /\ last_candle.pred.v > 0
                      THEN "ml_reversal_short" ELSE "None"
                 ELSE IF ~last_candle.pred.nan /\ last_candle.pred.v < 0
                      THEN "ml_reversal_long" ELSE "None"
            ELSE "None"

GuardIdle ==
  /\ analyzed = << >>
  /\ lastCall = NoCall
  /\ lastResult = "none"

FusionIdle ==
  /\ strategy = "none"
  /\ cols = {}
  /\ df = << >>
  /\ x7_out = << >>
  /\ log = [logged |-> FALSE, filtered |-> 0, kept |-> 0, original |-> 0]
  /\ done = {}

NThreads == 2

MaxCalls == 3

Threads == 1..NThreads

AdapterIdle ==
  /\ pc = [t \in Threads |-> "idle"]
  /\ op = [t \in Threads |-> "none"]
  /\ x7_instance = 0
  /\ instances = << >>
  /\ ret = [t \in Threads |-> 0]
  /\ injections = 0
  /\ calls = 0

TargetsIdle ==
  /\ close = << >>
  /\ label_period = 1
  /\ target = << >>

GuardInit ==
  /\ GuardIdle
  /\ FusionIdle
  /\ AdapterIdle
  /\ TargetsIdle

\* the host analyzes one more candle for the pair
AnalyzeCandle ==
  /\ Len(analyzed) < MaxCandles
  /\ \E c \in GuardCandles : analyzed' = Append(analyzed, c)
  /\ lastCall' = NoCall
  /\ lastResult' = "none"
  /\ UNCHANGED <<fusionVars, adapterVars, targetVars>>

ConfirmTradeEntry ==
  \E side \in Sides, rate \in Rates :
    /\ lastCall' = [op |-> "confirm_trade_entry", side |-> side, rate |-> rate,
                    profit |-> 0, is_short |-> FALSE]
    /\ lastResult' = confirm_trade_entry(analyzed, rate, side)
    /\ UNCHANGED analyzed
    /\ UNCHANGED <<fusionVars, adapterVars, targetVars>>

CustomExit ==
  \E is_short \in BOOLEAN, current_profit \in Profits :
    /\ lastCall' = [op |-> "custom_exit", side |-> "long", rate |-> 0,
                    profit |-> current_profit, is_short |-> is_short]
    /\ lastResult' = custom_exit(analyzed, is_short, current_profit)
    /\ UNCHANGED analyzed
    /\ UNCHANGED <<fusionVars, adapterVars, targetVars>>

GuardNext == AnalyzeCandle \/ ConfirmTradeEntry \/ CustomExit

SpecGuard == GuardInit /\ [][GuardNext]_vars

ConfirmCalled == lastCall.op = "confirm_trade_entry"

ExitCalled == lastCall.op = "custom_exit"

(* C1: with at least one analyzed candle whose last close c is a number,   *)
(* confirm_trade_entry rejects a long entry iff rate > c * 1.0025, rejects *)
(* any other side iff rate < c * 0.9975, and accepts in every other case;  *)
(* for c = 100.00 a long rate of 100.30 is rejected, 100.20 is accepted    *)
(* and the bound 100.25 itself is accepted.                                *)
C1_SlippageRule ==
  (ConfirmCalled /\ Len(analyzed) >= 1 /\ ~Last(analyzed).close.nan) =>
    LET c == Last(analyzed).close.v
        r == lastCall.rate
    IN  /\ lastResult \in {"True", "False"}
        /\ (lastCall.side = "long") =>
              ((lastResult = "False") <=> (r * 10000 > c * 10025))
        /\ (lastCall.side # "long") =>
              ((lastResult = "False") <=> (r * 10000 < c * 9975))
        /\ (lastCall.side = "long" /\ c = 2000 /\ r = 2006) => lastResult = "False"
        /\ (lastCall.side = "long" /\ c = 2000 /\ r = 2004) => lastResult = "True"
        /\ (lastCall.side = "long" /\ c = 2000 /\ r = 2005) => lastResult = "True"

C1_Witness ==
  /\ ConfirmCalled
  /\ Len(analyzed) = 2
  /\ Last(analyzed).close = Num(2000)
  /\ analyzed[1].close = Num(1000)
  /\ lastCall.side = "long"
  /\ lastCall.rate = 2005
  /\ lastResult = "True"

(* C2: for every analyzed candle sequence shorter than the warm-up length  *)
(* startup_candle_count (the empty one included) confirm_trade_entry       *)
(* returns False, whatever the side and the rate.                          *)
C2_RejectsBelowWarmup ==
  (ConfirmCalled /\ Len(analyzed) < startup_candle_count) => lastResult = "False"

(* C4: with at least one analyzed candle custom_exit returns               *)
(* 'ml_confidence_lost' whenever the last do_predict is not 1; otherwise   *)
(* 'ml_reversal_long' iff profit > 0.02, the trade is long and the last    *)
(* prediction < 0; 'ml_reversal_short' iff profit > 0.02, the trade is     *)
(* short and the last prediction > 0; otherwise None.                      *)
C4_ExitPriority ==
  (ExitCalled /\ Len(analyzed) >= 1) =>
    LET last == Last(analyzed)
        profitable == lastCall.profit > 2
        negative == ~last.pred.nan /\ last.pred.v < 0
        positive == ~last.pred.nan /\ last.pred.v > 0
    IN  /\ (last.do_predict # 1) => lastResult = "ml_confidence_lost"
        /\ (last.do_predict = 1) =>
              /\ (lastResult = "ml_reversal_long")
                    <=> (profitable /\ ~lastCall.is_short /\ negative)
              /\ (lastResult = "ml_reversal_short")
                    <=> (profitable /\ lastCall.is_short /\ positive)
              /\ lastResult \in {"ml_reversal_long", "ml_reversal_short", "None"}

C4_Witness ==
  /\ ExitCalled
  /\ Len(analyzed) >= 1
  /\ Last(analyzed).do_predict = 0
  /\ Last(analyzed).pred = Num(-1)
  /\ lastCall.profit = 3
  /\ ~lastCall.is_short
  /\ lastResult = "ml_confidence_lost"

(* C16: when the close of the last analyzed candle is undefined (NaN),     *)
(* both slippage comparisons of confirm_trade_entry are false, so the      *)
(* entry is accepted for either side and any rate.                         *)
C16_NanCloseAccepts ==
  (ConfirmCalled /\ Len(analyzed) >= 1 /\ Last(analyzed).close.nan) =>
    lastResult = "True"

C16_Witness ==
  /\ ConfirmCalled
  /\ Len(analyzed) = 2
  /\ analyzed[1].close = Num(2000)
  /\ Last(analyzed).close = NaN
  /\ lastCall.side = "short"
  /\ lastCall.rate = 1994
  /\ lastResult = "True"

-----------------------------------------------------------------------------
(* Signal fusion: populate_entry_trend / populate_exit_trend *)

MaxRows == 2

Gt(x, c) == ~x.nan /\ x.v > c

Lt(x, c) == ~x.nan /\ x.v < c

Eq(x, c) == ~x.nan /\ x.v = c

\* an undefined ml_upside; a defined one is the exact fraction n / d, d > 0
NoUpside == [nan |-> TRUE, n |-> 0, d |-> 1]

\* a row whose columns are all absent (undefined)
EmptyRow ==
  [do_predict |-> NaN, pred |-> NaN, close |-> NaN,
   EMA_12 |-> NaN, EMA_26 |-> NaN, RSI_14 |-> NaN, bb_width |-> NaN, volume |-> NaN,
   ml_upside |-> NoUpside,
   enter_long |-> NaN, enter_short |-> NaN, enter_tag |-> "nan",
   exit_long |-> NaN, exit_short |-> NaN, exit_tag |-> "nan"]

\* dataframe['&-s_close'] > 0.0001, in units of 0.0001
MinPrediction == 1

RsiOversold == 35

\* dataframe['bb_width'] > 0.015, in units of 0.001
MinBbWidth == 15

\* dataframe['&-s_close'] < -0.005, in units of 0.0001
ExitLongPrediction == -50

RsiOverbought == 80

\* dataframe['&-s_close'] > 0.005, in units of 0.0001
ExitShortPrediction == 50

RsiExtremeOversold == 20

\* rows inside the indicators' warm-up window: RSI, EMA and Bollinger width
\* are still undefined there
WarmupRows ==
  { [EmptyRow EXCEPT !.do_predict = r.do_predict, !.pred = Num(51),
                     !.volume = Num(7)] :
    r \in [do_predict : {Num(0), Num(1)}] }

\* rows of the frame freqai.start returns to the primary strategy
FreqAIRows ==
  WarmupRows \cup
  { [EmptyRow EXCEPT !.do_predict = r.do_predict, !.pred = r.pred,
                     !.EMA_12 = r.EMA_12, !.EMA_26 = Num(10), !.RSI_14 = r.RSI_14,
                     !.bb_width = r.bb_width, !.volume = r.volume] :
    r \in [do_predict : {Num(0), Num(1)},
           pred : {Num(-51), Num(1), Num(51)},
           EMA_12 : {Num(9), Num(11)},
           RSI_14 : {Num(34), Num(81)},
           bb_width : {Num(15), Num(16)},
           volume : {Num(0), Num(7)}] }

FreqAICols == {"close", "volume", "RSI_14", "EMA_12", "EMA_26", "bb_width",
               "do_predict", "&-s_close"}

enter_long_conditions_and(row) ==
  /\ Eq(row.do_predict, 1)
  /\ Gt(row.pred, MinPrediction)
  /\ (~row.EMA_12.nan /\ ~row.EMA_26.nan /\ row.EMA_12.v > row.EMA_26.v)
  /\ Lt(row.RSI_14, RsiOversold)
  /\ Gt(row.bb_width, MinBbWidth)
  /\ Gt(row.volume, 0)

enter_long_conditions(row) ==
  /\ Eq(row.do_predict, 1)
  /\ Gt(row.pred, MinPrediction)
  /\ \/ (~row.EMA_12.nan /\ ~row.EMA_26.nan /\ row.EMA_12.v > row.EMA_26.v)
     \/ Lt(row.RSI_14, RsiOversold)
  /\ Gt(row.bb_width, MinBbWidth)
  /\ Gt(row.volume, 0)

exit_long_conditions_and(row) ==
  /\ Eq(row.do_predict, 1)
  /\ Lt(row.pred, ExitLongPrediction)
  /\ Gt(row.RSI_14, RsiOverbought)

exit_long_conditions(row) ==
  /\ Eq(row.do_predict, 1)
  /\ \/ Lt(row.pred, ExitLongPrediction)
     \/ Gt(row.RSI_14, RsiOverbought)

exit_short_conditions(row) ==
  /\ Eq(row.do_predict, 1)
  /\ \/ Gt(row.pred, ExitShortPrediction)
     \/ Lt(row.RSI_14, RsiExtremeOversold)

FreqAI_populate_entry_trend_with_shorts(dataframe) ==
  [i \in DOMAIN dataframe |->
     IF enter_long_conditions(dataframe[i])
     THEN [dataframe[i] EXCEPT !.enter_long = Num(1), !.enter_short = Num(1),
                               !.enter_tag = "ml_long"]
     ELSE dataframe[i]]

FreqAI_populate_entry_trend(dataframe) ==
  [i \in DOMAIN dataframe |->
     IF enter_long_conditions(dataframe[i])
     THEN [dataframe[i] EXCEPT !.enter_long = Num(1), !.enter_tag = "ml_long"]
     ELSE dataframe[i]]

FreqAI_populate_exit_trend(dataframe) ==
  LET with_long ==
        [i \in DOMAIN dataframe |->
           IF exit_long_conditions(dataframe[i])
           THEN [dataframe[i] EXCEPT !.exit_long = Num(1)]
           ELSE dataframe[i]]
  IN  [i \in DOMAIN with_long |->
         IF exit_short_conditions(with_long[i])
         THEN [with_long[i] EXCEPT !.exit_short = Num(1)]
         ELSE with_long[i]]

NoLog == [logged |-> FALSE, filtered |-> 0, kept |-> 0, original |-> 0]

FreqAIInit ==
  /\ strategy = "FreqAI"
  /\ cols = FreqAICols
  /\ \E n \in 1..MaxRows : df \in [1..n -> FreqAIRows]
  /\ x7_out = << >>
  /\ log = NoLog
  /\ done = {}

\* the host runs populate_entry_trend, then populate_exit_trend, once per frame
FreqAIPopulateEntryTrend ==
  /\ strategy = "FreqAI"
  /\ done = {}
  /\ df' = FreqAI_populate_entry_trend(df)
  /\ cols' = cols \cup {"enter_long", "enter_tag"}
  /\ done' = done \cup {"populate_entry_trend"}
  /\ UNCHANGED <<strategy, x7_out, log>>
  /\ UNCHANGED <<guardVars, adapterVars, targetVars>>

FreqAIPopulateExitTrend ==
  /\ strategy = "FreqAI"
  /\ done = {"populate_entry_trend"}
  /\ df' = FreqAI_populate_exit_trend(df)
  /\ cols' = cols \cup {"exit_long", "exit_short"}
  /\ done' = done \cup {"populate_exit_trend"}
  /\ UNCHANGED <<strategy, x7_out, log>>
  /\ UNCHANGED <<guardVars, adapterVars, targetVars>>

-----------------------------------------------------------------------------
(* Hybrid: the wrapped strategy's signals, filtered by the ML prediction *)

can_short == TRUE

ml_exit_on_confidence_loss == TRUE

\* DecimalParameter defaults, in units of 0.01; the code compares ml_upside
\* with value / 100.0
ml_confidence_long == 60

ml_confidence_short == 60

ml_exit_confidence_threshold == 45

\* value / 100.0 as a fraction: value / PercentDen, value in units of 0.01
PercentDen == 10000


\* rows of the frame the Hybrid wrapper is handed when the ML columns are there:
\* '&-s_close' is a price level here, ml_upside = (prediction - close) / close
HybridRows ==
  { [EmptyRow EXCEPT !.do_predict = r.do_predict, !.pred = r.pred,
                     !.close = Num(1000)] :
    r \in [do_predict : {Num(0), Num(1)},
           pred : {Num(993), Num(1000), Num(1007)}] }

\* ... and when they are not (no inference ran on the frame)
HybridRowsNoML == { [EmptyRow EXCEPT !.close = Num(1000)] }

HybridCols == {"close", "volume"}

MLCols == {"&-s_close", "do_predict"}

\* what the wrapped strategy marks on one row
X7Signals == [long : {0, 1}, short : {0, 1}]

\* x7.populate_entry_trend: the wrapped strategy writes its entry columns
x7_populate_entry_trend(dataframe, sigs) ==
  [i \in DOMAIN dataframe |->
     [dataframe[i] EXCEPT !.enter_long = Num(sigs[i].long),
                          !.enter_short = Num(sigs[i].short),
                          !.enter_tag = IF sigs[i].long = 1 \/ sigs[i].short = 1
                                        THEN "x7" ELSE "nan"]]

\* x7.populate_exit_trend: the wrapped strategy writes its exit columns
x7_populate_exit_trend(dataframe, sigs) ==
  [i \in DOMAIN dataframe |->
     [dataframe[i] EXCEPT !.exit_long = Num(sigs[i].long),
                          !.exit_short = Num(sigs[i].short),
                          !.exit_tag = IF sigs[i].long = 1 \/ sigs[i].short = 1
                                       THEN "x7" ELSE "nan"]]

RECURSIVE SumTo(_, _, _)
\* Series.sum(): undefined cells are skipped
SumTo(dataframe, col, n) ==
  IF n = 0 THEN 0
  ELSE SumTo(dataframe, col, n - 1)
       + (IF dataframe[n][col].nan THEN 0 ELSE dataframe[n][col].v)

Sum(dataframe, col) == SumTo(dataframe, col, Len(dataframe))

\* (dataframe['&-s_close'] - dataframe['close']) / dataframe['close']
ml_upside_of(row) ==
  IF row.pred.nan \/ row.close.nan \/ row.close.v <= 0 THEN NoUpside
  ELSE [nan |-> FALSE, n |-> row.pred.v - row.close.v, d |-> row.close.v]

with_ml_upside(dataframe) ==
  [i \in DOMAIN dataframe |->
     [dataframe[i] EXCEPT !.ml_upside = ml_upside_of(dataframe[i])]]

UpsideGt_raw(u, value) == ~u.nan /\ u.n * 100 > value * u.d

\* ml_upside > value / 100.0
UpsideGt(u, value) == ~u.nan /\ u.n * PercentDen > value * u.d

\* ml_upside < value / 100.0
UpsideLt(u, value) == ~u.nan /\ u.n * PercentDen < value * u.d

conditions_ml_long_unchecked(row) ==
  UpsideGt(row.ml_upside, ml_confidence_long)

conditions_ml_long(row) ==
  Eq(row.do_predict, 1) /\ UpsideGt(row.ml_upside, ml_confidence_long)

conditions_ml_short(row) ==
  Eq(row.do_predict, 1) /\ UpsideLt(row.ml_upside, 0 - ml_confidence_short)

conditions_ml_exit_long(row) ==
  Eq(row.do_predict, 1) /\ UpsideLt(row.ml_upside, ml_exit_confidence_threshold)

conditions_ml_exit_short(row) ==
  Eq(row.do_predict, 1) /\ UpsideGt(row.ml_upside, 0 - ml_exit_confidence_threshold)

\* lines 111-113: dataframe.loc[~conditions_ml_long, 'enter_long'] = 0
filter_enter_long(dataframe, columns) ==
  IF "enter_long" \in columns /\ Sum(dataframe, "enter_long") > 0
  THEN [i \in DOMAIN dataframe |->
          IF conditions_ml_long(dataframe[i]) THEN dataframe[i]
          ELSE [dataframe[i] EXCEPT !.enter_long = Num(0)]]
  ELSE dataframe

\* lines 122-128: dataframe.loc[~conditions_ml_short, 'enter_short'] = 0
filter_enter_short(dataframe, columns) ==
  IF can_short /\ "enter_short" \in columns /\ Sum(dataframe, "enter_short") > 0
  THEN [i \in DOMAIN dataframe |->
          IF conditions_ml_short(dataframe[i]) THEN dataframe[i]
          ELSE [dataframe[i] EXCEPT !.enter_short = Num(0)]]
  ELSE dataframe

Hybrid_entry_filter_one_column(dataframe, columns) ==
  IF "do_predict" \in columns
  THEN filter_enter_short(filter_enter_long(with_ml_upside(dataframe), columns), columns)
  ELSE dataframe

\* the part of Hybrid.populate_entry_trend after the wrapped strategy returned
Hybrid_entry_filter(dataframe, columns) ==
  IF MLCols \subseteq columns
  THEN filter_enter_short(filter_enter_long(with_ml_upside(dataframe), columns), columns)
  ELSE dataframe

\* lines 112-120: the log.info of the filtered count
Hybrid_entry_log(dataframe, columns) ==
  IF MLCols \subseteq columns /\ "enter_long" \in columns
     /\ Sum(dataframe, "enter_long") > 0
  THEN LET original_signals == Sum(dataframe, "enter_long")
           filtered_signals ==
             Sum(filter_enter_long(with_ml_upside(dataframe), columns), "enter_long")
       IN  IF original_signals > filtered_signals
           THEN [logged |-> TRUE, filtered |-> original_signals - filtered_signals,
                 kept |-> filtered_signals, original |-> original_signals]
           ELSE NoLog
  ELSE NoLog

\* lines 145-147
force_exit_long(dataframe, columns) ==
  IF "exit_long" \in columns
  THEN [i \in DOMAIN dataframe |->
          IF conditions_ml_exit_long(dataframe[i])
          THEN [dataframe[i] EXCEPT !.exit_long = Num(1),
                                    !.exit_tag = "ml_confidence_lost"]
          ELSE dataframe[i]]
  ELSE dataframe

\* lines 149-155
force_exit_short(dataframe, columns) ==
  IF can_short /\ "exit_short" \in columns
  THEN [i \in DOMAIN dataframe |->
          IF conditions_ml_exit_short(dataframe[i])
          THEN [dataframe[i] EXCEPT !.exit_short = Num(1),
                                    !.exit_tag = "ml_confidence_lost_short"]
          ELSE dataframe[i]]
  ELSE dataframe

\* line 141 reads dataframe['do_predict'] without a presence test: with the
\* prediction column there and do_predict absent the method raises KeyError
Hybrid_exit_raises(columns) ==
  ml_exit_on_confidence_loss /\ "&-s_close" \in columns /\ "do_predict" \notin columns

Hybrid_exit_force_long_last(dataframe, columns) ==
  IF ml_exit_on_confidence_loss /\ "&-s_close" \in columns
  THEN LET with_upside == IF "ml_upside" \in columns THEN dataframe
                          ELSE with_ml_upside(dataframe)
       IN  force_exit_long(force_exit_short(with_upside, columns), columns)
  ELSE dataframe

\* the part of Hybrid.populate_exit_trend after the wrapped strategy returned
Hybrid_exit_force(dataframe, columns) ==
  IF ml_exit_on_confidence_loss /\ "&-s_close" \in columns
  THEN LET with_upside == IF "ml_upside" \in columns THEN dataframe
                          ELSE with_ml_upside(dataframe)
       IN  force_exit_short(force_exit_long(with_upside, columns), columns)
  ELSE dataframe

\* the signal columns of a row, as the wrapped strategy returned them
X7Out(row) ==
  [enter_long |-> row.enter_long, enter_short |-> row.enter_short,
   exit_long |-> row.exit_long, exit_short |-> row.exit_short,
   exit_tag |-> row.exit_tag]

HybridInit ==
  /\ strategy = "Hybrid"
  /\ x7_out = << >>
  /\ log = NoLog
  /\ done = {}
  \* the inference provider writes the prediction and do_predict together
  \* (test_nfi_x7_freqai.py:100-101), so a frame holds both columns or neither
  /\ \E n \in 1..MaxRows :
       \/ cols = HybridCols \cup MLCols /\ df \in [1..n -> HybridRows]
       \/ cols = HybridCols /\ df \in [1..n -> HybridRowsNoML]

HybridPopulateEntryTrend ==
  /\ strategy = "Hybrid"
  /\ done = {}
  /\ \E sigs \in [DOMAIN df -> X7Signals] :
       LET wrapped == x7_populate_entry_trend(df, sigs)
           columns == cols \cup {"enter_long", "enter_short", "enter_tag"}
       IN  /\ x7_out' = [i \in DOMAIN wrapped |-> X7Out(wrapped[i])]
           /\ df' = Hybrid_entry_filter(wrapped, columns)
           /\ log' = Hybrid_entry_log(wrapped, columns)
           /\ cols' = IF MLCols \subseteq columns
                      THEN columns \cup {"ml_upside"} ELSE columns
  /\ done' = done \cup {"populate_entry_trend"}
  /\ UNCHANGED strategy
  /\ UNCHANGED <<guardVars, adapterVars, targetVars>>

HybridPopulateExitTrend ==
  /\ strategy = "Hybrid"
  /\ done = {"populate_entry_trend"}
  /\ \E sigs \in [DOMAIN df -> X7Signals] :
       LET wrapped == x7_populate_exit_trend(df, sigs)
           columns == cols \cup {"exit_long", "exit_short", "exit_tag"}
       IN  IF Hybrid_exit_raises(columns)
           THEN /\ done' = done \cup {"KeyError"}
                /\ UNCHANGED <<df, x7_out, cols>>
           ELSE /\ x7_out' = [i \in DOMAIN wrapped |->
                               [X7Out(wrapped[i])
                                  EXCEPT !.enter_long = x7_out[i].enter_long,
                                         !.enter_short = x7_out[i].enter_short]]
                /\ df' = Hybrid_exit_force(wrapped, columns)
                /\ cols' = IF ml_exit_on_confidence_loss /\ "&-s_close" \in columns
                           THEN columns \cup {"ml_upside"} ELSE columns
                /\ done' = done \cup {"populate_exit_trend"}
  /\ UNCHANGED <<strategy, log>>
  /\ UNCHANGED <<guardVars, adapterVars, targetVars>>

Init ==
  /\ GuardIdle
  /\ AdapterIdle
  /\ TargetsIdle
  /\ (FreqAIInit \/ HybridInit)

Next ==
  \/ FreqAIPopulateEntryTrend
  \/ FreqAIPopulateExitTrend
  \/ HybridPopulateEntryTrend
  \/ HybridPopulateExitTrend

Spec == Init /\ [][Next]_vars

IsOne(x) == ~x.nan /\ x.v = 1

EntryDone == "populate_entry_trend" \in done

ExitDone == "populate_exit_trend" \in done

MLExitTags == {"ml_confidence_lost", "ml_confidence_lost_short"}

C5_EntryLongRule ==
  (strategy = "FreqAI" /\ EntryDone) =>
    \A i \in DOMAIN df :
      LET r == df[i]
          all_five ==
            /\ r.do_predict = Num(1)
            /\ ~r.pred.nan /\ r.pred.v > 1
            /\ \/ (~r.EMA_12.nan /\ ~r.EMA_26.nan /\ r.EMA_12.v > r.EMA_26.v)
               \/ (~r.RSI_14.nan /\ r.RSI_14.v < 35)
            /\ ~r.bb_width.nan /\ r.bb_width.v > 15
            /\ ~r.volume.nan /\ r.volume.v > 0
      IN  /\ all_five => (r.enter_long = Num(1) /\ r.enter_tag = "ml_long")
          /\ ~all_five => (r.enter_long = NaN /\ r.enter_tag = "nan")
          /\ r.enter_short = NaN

C5_Witness ==
  /\ strategy = "FreqAI"
  /\ EntryDone
  /\ Len(df) = 2
  /\ df[1].enter_long = Num(1) /\ df[1].enter_tag = "ml_long"
  /\ df[1].EMA_12 = Num(9) /\ df[1].RSI_14 = Num(34)
  /\ df[2].enter_long = NaN /\ df[2].enter_tag = "nan"
  /\ df[2].do_predict = Num(1) /\ df[2].pred = Num(1)
  /\ df[2].EMA_12 = Num(11) /\ df[2].bb_width = Num(16) /\ df[2].volume = Num(7)

Count(dataframe, col) == Cardinality({i \in DOMAIN dataframe : IsOne(dataframe[i][col])})

(* C6: after the Hybrid entry filter has run on a frame that carries the   *)
(* ML columns, a row is enter_long = 1 iff the wrapped strategy marked it  *)
(* and do_predict = 1 and ML upside (prediction - close) / close exceeds   *)
(* the threshold configured by ml_confidence_long (value / 100);           *)
(* enter_short survives iff do_predict = 1 and ML upside is below the      *)
(* negated ml_confidence_short threshold; no entry is created, and the     *)
(* kept plus the filtered (logged) entries are the wrapped strategy's.     *)
C6_EntryFilter ==
  (strategy = "Hybrid" /\ EntryDone /\ MLCols \subseteq cols) =>
    /\ \A i \in DOMAIN df :
         LET r == df[i]
             valid == r.do_predict = Num(1)
             defined == ~r.pred.nan /\ ~r.close.nan /\ r.close.v > 0
         IN  /\ IsOne(r.enter_long) <=>
                  /\ IsOne(x7_out[i].enter_long)
                  /\ valid /\ defined
                  /\ (r.pred.v - r.close.v) * 1000 > 6 * r.close.v
             /\ IsOne(r.enter_short) <=>
                  /\ IsOne(x7_out[i].enter_short)
                  /\ valid /\ defined
                  /\ (r.pred.v - r.close.v) * 1000 < (0 - 6) * r.close.v
             /\ ~IsOne(r.enter_long) => r.enter_long = Num(0)
    /\ LET original == Count(x7_out, "enter_long")
           kept == Count(df, "enter_long")
       IN  /\ kept <= original
           /\ log.logged <=> (original > kept)
           /\ log.logged =>
                (log.filtered + log.kept = log.original
                 /\ log.kept = kept /\ log.original = original)

C6_Witness ==
  /\ strategy = "Hybrid"
  /\ EntryDone
  /\ MLCols \subseteq cols
  /\ Len(df) = 2
  /\ Count(x7_out, "enter_long") = 2
  /\ Count(df, "enter_long") = 1
  /\ df[1].do_predict = Num(1) /\ df[2].do_predict = Num(1)
  /\ log = [logged |-> TRUE, filtered |-> 1, kept |-> 1, original |-> 2]

(* C7: the Hybrid confidence-loss rule only adds exits: every row the      *)
(* wrapped strategy marked exit_long = 1 (exit_short = 1) is still 1;      *)
(* every row with do_predict = 1 and ML upside below the exit threshold    *)
(* gets exit_long = 1 with exit_tag 'ml_confidence_lost' (above the        *)
(* negated threshold: exit_short = 1 with tag 'ml_confidence_lost_short'); *)
(* rows matching neither rule keep the wrapped strategy's exit columns.    *)
C7_ExitForce ==
  (strategy = "Hybrid" /\ ExitDone /\ MLCols \subseteq cols) =>
    \A i \in DOMAIN df :
      LET r == df[i]
          valid == r.do_predict = Num(1) /\ ~r.pred.nan /\ ~r.close.nan /\ r.close.v > 0
          long_rule == valid /\ (r.pred.v - r.close.v) * 10000 < 45 * r.close.v
          short_rule == valid /\ (r.pred.v - r.close.v) * 10000 > (0 - 45) * r.close.v
      IN  /\ IsOne(x7_out[i].exit_long) => IsOne(r.exit_long)
          /\ IsOne(x7_out[i].exit_short) => IsOne(r.exit_short)
          /\ long_rule => (IsOne(r.exit_long) /\ r.exit_tag = "ml_confidence_lost")
          /\ short_rule => (IsOne(r.exit_short) /\ r.exit_tag = "ml_confidence_lost_short")
          /\ (~long_rule /\ ~short_rule) =>
               /\ r.exit_long = x7_out[i].exit_long
               /\ r.exit_short = x7_out[i].exit_short
               /\ r.exit_tag = x7_out[i].exit_tag

(* C11: for a candle sequence shorter than the warm-up length              *)
(* startup_candle_count, populate_entry_trend and populate_exit_trend of   *)
(* the primary strategy leave every row non-actionable: no row has         *)
(* enter_long = 1, exit_long = 1 or exit_short = 1.                        *)
C11_WarmupNonActionable ==
  (strategy = "FreqAI" /\ Len(df) < startup_candle_count) =>
    \A i \in DOMAIN df :
      /\ ~IsOne(df[i].enter_long)
      /\ ~IsOne(df[i].exit_long)
      /\ ~IsOne(df[i].exit_short)

(* C12: after populate_entry_trend no row has both enter_long = 1 and      *)
(* enter_short = 1: the primary strategy never writes enter_short, and the *)
(* Hybrid filter only clears entries, so a row the wrapped strategy did    *)
(* not mark long and short at once is not marked so afterwards.            *)
C12_EntryExclusion ==
  EntryDone =>
    \A i \in DOMAIN df :
      /\ strategy = "FreqAI" =>
           /\ df[i].enter_short = NaN
           /\ ~(IsOne(df[i].enter_long) /\ IsOne(df[i].enter_short))
      /\ strategy = "Hybrid" =>
           /\ IsOne(df[i].enter_long) => IsOne(x7_out[i].enter_long)
           /\ IsOne(df[i].enter_short) => IsOne(x7_out[i].enter_short)
           /\ ~(IsOne(x7_out[i].enter_long) /\ IsOne(x7_out[i].enter_short))
                => ~(IsOne(df[i].enter_long) /\ IsOne(df[i].enter_short))

C12_Witness ==
  /\ strategy = "Hybrid"
  /\ EntryDone
  /\ Len(df) = 2
  /\ IsOne(x7_out[1].enter_long) /\ ~IsOne(x7_out[1].enter_short)
  /\ IsOne(df[1].enter_long) /\ ~IsOne(df[1].enter_short)
  /\ IsOne(x7_out[2].enter_short) /\ ~IsOne(x7_out[2].enter_long)
  /\ Eq(df[2].enter_short, 0)

(* C13: populate_exit_trend of the primary strategy sets exit_long = 1 on  *)
(* exactly the rows where do_predict = 1 and (prediction < -0.005 or       *)
(* RSI_14 > 80), leaves exit_long as it was (absent) on every other row,   *)
(* and leaves enter_long, enter_short and enter_tag as populate_entry_trend*)
(* wrote them.                                                             *)
C13_ExitLongRule ==
  (strategy = "FreqAI" /\ ExitDone) =>
    \A i \in DOMAIN df :
      LET r == df[i]
          rule ==
            /\ r.do_predict = Num(1)
            /\ \/ (~r.pred.nan /\ r.pred.v < 0 - 50)
               \/ (~r.RSI_14.nan /\ r.RSI_14.v > 80)
          entered ==
            /\ r.do_predict = Num(1)
            /\ ~r.pred.nan /\ r.pred.v > 1
            /\ \/ (~r.EMA_12.nan /\ ~r.EMA_26.nan /\ r.EMA_12.v > r.EMA_26.v)
               \/ (~r.RSI_14.nan /\ r.RSI_14.v < 35)
            /\ ~r.bb_width.nan /\ r.bb_width.v > 15
            /\ ~r.volume.nan /\ r.volume.v > 0
      IN  /\ rule => r.exit_long = Num(1)
          /\ ~rule => r.exit_long = NaN
          /\ r.enter_long = (IF entered THEN Num(1) ELSE NaN)
          /\ r.enter_tag = (IF entered THEN "ml_long" ELSE "nan")
          /\ r.enter_short = NaN

C13_Witness ==
  /\ strategy = "FreqAI"
  /\ ExitDone
  /\ Len(df) = 2
  /\ df[1].do_predict = Num(1) /\ df[1].pred = Num(51) /\ df[1].RSI_14 = Num(81)
  /\ df[1].exit_long = Num(1) /\ df[1].enter_long = Num(1)
  /\ df[2].do_predict = Num(1) /\ df[2].pred = Num(1) /\ df[2].RSI_14 = Num(34)
  /\ df[2].exit_long = NaN

(* C14: in the Hybrid populate_exit_trend (can_short on, threshold t > 0)  *)
(* the long rule upside < t and the short rule upside > -t cover every     *)
(* value: every row with do_predict = 1 and a defined ML upside ends with  *)
(* exit_long = 1 or exit_short = 1, both when -t < upside < t, and a row   *)
(* matching both rules ends with exit_tag 'ml_confidence_lost_short'.      *)
C14_ExitRulesCover ==
  (strategy = "Hybrid" /\ ExitDone /\ MLCols \subseteq cols) =>
    \A i \in DOMAIN df :
      LET r == df[i]
          valid == r.do_predict = Num(1) /\ ~r.pred.nan /\ ~r.close.nan /\ r.close.v > 0
          below == (r.pred.v - r.close.v) * 10000 < 45 * r.close.v
          above == (r.pred.v - r.close.v) * 10000 > (0 - 45) * r.close.v
      IN  valid =>
            /\ IsOne(r.exit_long) \/ IsOne(r.exit_short)
            /\ (below /\ above) =>
                 /\ IsOne(r.exit_long) /\ IsOne(r.exit_short)
                 /\ r.exit_tag = "ml_confidence_lost_short"

C14_Witness ==
  /\ strategy = "Hybrid"
  /\ ExitDone
  /\ Len(df) = 2
  /\ df[1].do_predict = Num(1) /\ df[1].pred = Num(1000)
  /\ ~IsOne(x7_out[1].exit_long) /\ ~IsOne(x7_out[1].exit_short)
  /\ IsOne(df[1].exit_long) /\ IsOne(df[1].exit_short)
  /\ df[1].exit_tag = "ml_confidence_lost_short"
  /\ df[2].do_predict = Num(1) /\ df[2].pred = Num(1007)
  /\ ~IsOne(x7_out[2].exit_long)
  /\ ~IsOne(df[2].exit_long) /\ IsOne(df[2].exit_short)

(* The column guards of the Hybrid wrapper (lines 103 and 136), exercised   *)
(* on frames that carry any subset of the two ML columns.                  *)

\* rows of a frame that carries exactly the ML columns in present
HybridRowsWith(present) ==
  { [EmptyRow EXCEPT
       !.do_predict = IF "do_predict" \in present THEN r.do_predict ELSE NaN,
       !.pred = IF "&-s_close" \in present THEN r.pred ELSE NaN,
       !.close = Num(1000)] :
    r \in [do_predict : {Num(0), Num(1)},
           pred : {Num(993), Num(1000), Num(1007)}] }

HybridColsInit ==
  /\ strategy = "Hybrid"
  /\ x7_out = << >>
  /\ log = NoLog
  /\ done = {}
  /\ \E present \in SUBSET MLCols :
       /\ cols = HybridCols \cup present
       /\ \E n \in 1..MaxRows : df \in [1..n -> HybridRowsWith(present)]

ColsInit ==
  /\ GuardIdle
  /\ AdapterIdle
  /\ TargetsIdle
  /\ HybridColsInit

ColsNext ==
  \/ HybridPopulateEntryTrend
  \/ HybridPopulateExitTrend

SpecCols == ColsInit /\ [][ColsNext]_vars

(* C15: when '&-s_close' or do_predict is absent from the frame the        *)
(* wrapped strategy returned, the Hybrid populate_entry_trend applies no   *)
(* ML mask: enter_long and enter_short are the wrapped strategy's, no      *)
(* ml_upside is computed and nothing is logged; and when '&-s_close' is    *)
(* absent populate_exit_trend adds no exit: the exit columns and the exit  *)
(* tag are the wrapped strategy's.                                         *)
C15_AbsentColumnsPassThrough ==
  /\ (strategy = "Hybrid" /\ EntryDone /\ ~(MLCols \subseteq cols)) =>
       /\ log = NoLog
       /\ \A i \in DOMAIN df :
            /\ df[i].enter_long = x7_out[i].enter_long
            /\ df[i].enter_short = x7_out[i].enter_short
            /\ ~ExitDone => df[i].ml_upside = NoUpside
  /\ (strategy = "Hybrid" /\ ExitDone /\ "&-s_close" \notin cols) =>
       \A i \in DOMAIN df :
         /\ df[i].exit_long = x7_out[i].exit_long
         /\ df[i].exit_short = x7_out[i].exit_short
         /\ df[i].exit_tag = x7_out[i].exit_tag

C15_Witness ==
  /\ strategy = "Hybrid"
  /\ ExitDone
  /\ "do_predict" \in cols /\ "&-s_close" \notin cols
  /\ Len(df) = 2
  /\ Eq(df[1].do_predict, 0)
  /\ IsOne(x7_out[1].enter_long) /\ IsOne(df[1].enter_long)
  /\ IsOne(x7_out[1].enter_short) /\ IsOne(df[1].enter_short)
  /\ Eq(df[2].do_predict, 1)
  /\ Eq(x7_out[2].exit_long, 0) /\ Eq(df[2].exit_long, 0)
  /\ df[2].exit_tag = "nan"

-----------------------------------------------------------------------------
(* Delegation adapter: Hybrid._get_x7_instance, reached from every Hybrid   *)
(* method that delegates to the wrapped strategy.  Each line of the method  *)
(* is one step of the calling thread.                                       *)

HybridMethods == {"populate_indicators", "populate_entry_trend",
                  "populate_exit_trend", "confirm_trade_entry"}

\* a wrapped instance as NostalgiaForInfinityX7(self.config) leaves it
NewInstance == [dp |-> "unset", wallets |-> "unset"]

\* lines 95, 100, 133, 161: x7 = self._get_x7_instance()
CallMethod(t) ==
  /\ pc[t] = "idle"
  /\ calls < MaxCalls
  /\ \E m \in HybridMethods : op' = [op EXCEPT ![t] = m]
  /\ pc' = [pc EXCEPT ![t] = "line43"]
  /\ calls' = calls + 1
  /\ UNCHANGED <<x7_instance, instances, ret, injections>>
  /\ UNCHANGED <<guardVars, fusionVars, targetVars>>

Line43_always(t) ==
  /\ pc[t] = "line43"
  /\ pc' = [pc EXCEPT ![t] = "line44"]
  /\ UNCHANGED <<op, x7_instance, instances, ret, injections, calls>>
  /\ UNCHANGED <<guardVars, fusionVars, targetVars>>

\* line 43: if self._x7_instance is None:
Line43(t) ==
  /\ pc[t] = "line43"
  /\ pc' = [pc EXCEPT ![t] = IF x7_instance = 0 THEN "line44" ELSE "line47"]
  /\ UNCHANGED <<op, x7_instance, instances, ret, injections, calls>>
  /\ UNCHANGED <<guardVars, fusionVars, targetVars>>

\* line 44: self._x7_instance = NostalgiaForInfinityX7(self.config)
Line44(t) ==
  /\ pc[t] = "line44"
  /\ instances' = Append(instances, NewInstance)
  /\ x7_instance' = Len(instances) + 1
  /\ pc' = [pc EXCEPT ![t] = "line45"]
  /\ UNCHANGED <<op, ret, injections, calls>>
  /\ UNCHANGED <<guardVars, fusionVars, targetVars>>

\* line 45: self._x7_instance.dp = self.dp
Line45(t) ==
  /\ pc[t] = "line45"
  /\ instances' = [instances EXCEPT ![x7_instance].dp = "self.dp"]
  /\ injections' = injections + 1
  /\ pc' = [pc EXCEPT ![t] = "line46"]
  /\ UNCHANGED <<op, x7_instance, ret, calls>>
  /\ UNCHANGED <<guardVars, fusionVars, targetVars>>

\* line 46: self._x7_instance.wallets = self.wallets
Line46(t) ==
  /\ pc[t] = "line46"
  /\ instances' = [instances EXCEPT ![x7_instance].wallets = "self.wallets"]
  /\ injections' = injections + 1
  /\ pc' = [pc EXCEPT ![t] = "line47"]
  /\ UNCHANGED <<op, x7_instance, ret, calls>>
  /\ UNCHANGED <<guardVars, fusionVars, targetVars>>

\* line 47: return self._x7_instance; the method then delegates and returns
Line47(t) ==
  /\ pc[t] = "line47"
  /\ ret' = [ret EXCEPT ![t] = x7_instance]
  /\ pc' = [pc EXCEPT ![t] = "idle"]
  /\ UNCHANGED <<op, x7_instance, instances, injections, calls>>
  /\ UNCHANGED <<guardVars, fusionVars, targetVars>>

AdapterInit ==
  /\ GuardIdle
  /\ FusionIdle
  /\ TargetsIdle
  /\ AdapterIdle

\* the host runs the wrapper from several threads, in any interleaving
ConcNext ==
  \E t \in Threads :
    \/ CallMethod(t)
    \/ Line43(t)
    \/ Line44(t)
    \/ Line45(t)
    \/ Line46(t)
    \/ Line47(t)

SpecConc == AdapterInit /\ [][ConcNext]_vars

\* no other thread is inside a call
Alone(t) == \A u \in Threads \ {t} : pc[u] = "idle"

\* the host runs one call at a time: a thread moves only while it is alone
SeqNext ==
  \E t \in Threads :
    \/ Alone(t) /\ CallMethod(t)
    \/ Alone(t) /\ Line43(t)
    \/ Alone(t) /\ Line44(t)
    \/ Alone(t) /\ Line45(t)
    \/ Alone(t) /\ Line46(t)
    \/ Alone(t) /\ Line47(t)

SpecSeq == AdapterInit /\ [][SeqNext]_vars

Quiet == \A t \in Threads : pc[t] = "idle"

(* C8: when the host runs the Hybrid methods concurrently, the wrapped     *)
(* strategy is constructed at most once and every caller of                *)
(* _get_x7_instance obtains that same instance.                            *)
C8_AtMostOnce ==
  /\ Len(instances) <= 1
  /\ \A t, u \in Threads : (ret[t] # 0 /\ ret[u] # 0) => ret[t] = ret[u]

(* C9: over any sequential run of Hybrid method calls the adapter goes     *)
(* from uninitialized to bound once: the first call constructs the one     *)
(* wrapped instance and injects the wrapper's dp and wallets into it, the  *)
(* cache is never empty again, and every later call gets that instance     *)
(* without another construction or injection.                              *)
C9_BoundOnce ==
  /\ Len(instances) <= 1
  /\ x7_instance = Len(instances)
  /\ \A t \in Threads : ret[t] \in {0, 1}
  /\ (calls >= 1 /\ Quiet) =>
       /\ x7_instance = 1
       /\ instances = <<[dp |-> "self.dp", wallets |-> "self.wallets"]>>
       /\ injections = 2
       /\ \E t \in Threads : ret[t] = 1
  /\ \A t \in Threads : (pc[t] = "idle" /\ op[t] # "none") => ret[t] = 1
  /\ (x7_instance = 0) => (calls <= 1 /\ \A t \in Threads : pc[t] \in {"idle", "line43", "line44"})

C9_Witness ==
  /\ Quiet
  /\ calls >= 3
  /\ ret[1] = 1 /\ ret[2] = 1
  /\ op[1] = "populate_indicators" /\ op[2] = "confirm_trade_entry"
  /\ Len(instances) = 1
  /\ injections = 2

-----------------------------------------------------------------------------
(* Target labeling of the primary strategy: set_freqai_targets *)

MaxLen == 5

MaxHorizon == 2

ClosePrices == {10, 11, 13}

\* Series.shift(-periods): row i takes the value of row i + periods
shift_back(series, periods) ==
  [i \in 1..Len(series) |->
     IF i + periods <= Len(series) THEN Num(series[i + periods]) ELSE NaN]

RECURSIVE WindowSum(_, _, _)
WindowSum(series, from, to) ==
  IF from > to THEN 0 ELSE series[from].v + WindowSum(series, from + 1, to)

\* Series.rolling(window).sum(): defined only where the trailing window holds
\* `window` defined observations (min_periods = window)
rolling_sum(series, window) ==
  [i \in 1..Len(series) |->
     IF i - window + 1 >= 1 /\ \A j \in (i - window + 1)..i : ~series[j].nan
     THEN Num(WindowSum(series, i - window + 1, i))
     ELSE NaN]

\* close.shift(-label_period).rolling(label_period).mean() / close - 1,
\* as the exact fraction (sum - label_period * close) / (label_period * close)
set_freqai_targets(closes, period) ==
  LET rolled == rolling_sum(shift_back(closes, period), period)
  IN  [i \in 1..Len(closes) |->
         IF rolled[i].nan \/ closes[i] = 0 THEN NoUpside
         ELSE [nan |-> FALSE, n |-> rolled[i].v - period * closes[i],
               d |-> period * closes[i]]]

TargetsInit ==
  /\ GuardIdle
  /\ FusionIdle
  /\ AdapterIdle
  /\ \E n \in 1..MaxLen : close \in [1..n -> ClosePrices]
  /\ label_period \in 1..MaxHorizon
  /\ target = << >>

SetFreqaiTargets ==
  /\ target = << >>
  /\ target' = set_freqai_targets(close, label_period)
  /\ UNCHANGED <<close, label_period>>
  /\ UNCHANGED <<guardVars, fusionVars, adapterVars>>

TargetsNext == SetFreqaiTargets

SpecTargets == TargetsInit /\ [][TargetsNext]_vars

RECURSIVE ForwardSum(_, _, _)
\* close[i+1] + ... + close[i+h]
ForwardSum(closes, i, h) ==
  IF h = 0 THEN 0 ELSE closes[i + h] + ForwardSum(closes, i, h - 1)

IsForwardReturn(t, closes, i, h) ==
  /\ ~t.nan
  /\ t.n * (h * closes[i]) = (ForwardSum(closes, i, h) - h * closes[i]) * t.d

Labeled == target # << >>

(* C10: with horizon H = label_period_candles, for every row i that has a  *)
(* full forward window (i + H within the series) the target equals         *)
(* mean(close[i+1 .. i+H]) / close[i] - 1, and for the final H rows the    *)
(* target is undefined.                                                    *)
C10_ForwardMeanEveryRow ==
  Labeled =>
    \A i \in 1..Len(close) :
      /\ (i + label_period <= Len(close)) =>
           IsForwardReturn(target[i], close, i, label_period)
      /\ (i + label_period > Len(close)) => target[i].nan

\* what the code computes: the rows before the first full trailing window of
\* the shifted series (the first H - 1 rows) are undefined as well
C10_LeadingRowsUndefined ==
  Labeled =>
    \A i \in 1..Len(close) :
      /\ (i >= label_period /\ i + label_period <= Len(close)) =>
           IsForwardReturn(target[i], close, i, label_period)
      /\ (i < label_period \/ i + label_period > Len(close)) => target[i].nan

====
